---- MODULE Spec2Model ----
(***************************************************************************)
(* The KYC upload form controller of frontend/script.js: the submit        *)
(* handler of #kyc-form (validation, busy state, one POST, JSON parsing,   *)
(* error synthesis, cleanup) and displayResults.                           *)
(*                                                                         *)
(* The handler is an async function.  It runs synchronously up to          *)
(* `await fetch(...)`, is resumed when the fetch promise settles, runs up  *)
(* to `await response.json()`, and is resumed again when that promise      *)
(* settles; each of the three synchronous stretches is one action.         *)
(***************************************************************************)
EXTENDS Integers, Sequences, FiniteSets, TLC

\* ------------------------------------------------------------------ bounds
\* Largest number of files one file input holds.
MaxFiles == 1
\* Largest number of submit events of one run.
MaxSubmits == 3
\* Number of handler invocations that can be suspended at once.
MaxHandlers == 2

\* ------------------------------------------------------- JavaScript values
\* A JavaScript value as JSON.parse can build it.  t is the type tag, s the
\* text of a string or boolean, n the value of a number, f the members of an
\* object (k the key) or the elements of an array (k empty), in order.
JVal(t, s, n, f) == [t |-> t, s |-> s, n |-> n, f |-> f]
Undefined == JVal("undefined", "", 0, <<>>)
JNull == JVal("null", "", 0, <<>>)
JStr(x) == JVal("str", x, 0, <<>>)
JNum(x) == JVal("num", "", x, <<>>)
JObj(members) == JVal("obj", "", 0, members)
JArr(elems) == JVal("arr", "", 0, [i \in 1..Len(elems) |-> [k |-> "", v |-> elems[i]]])
Member(key, val) == [k |-> key, v |-> val]

\* The messages of the errors the engine throws (V8's wording).
EofMsg == "Unexpected end of JSON input"
TokenMsg == "Unexpected token in JSON"
TrailingMsg == "Unexpected non-whitespace character after JSON"
NullPropMsg(key) == "Cannot read properties of null (reading '" \o key \o "')"

\* ----------------------------------------------------------- response.json
\* The body on the wire, as the sequence of its JSON tokens (white space
\* dropped); "junk" is text that begins no JSON token, such as "<html>".
Tok(t, s, n) == [t |-> t, s |-> s, n |-> n]
LB == Tok("{", "", 0)
RB == Tok("}", "", 0)
LK == Tok("[", "", 0)
RK == Tok("]", "", 0)
CL == Tok(":", "", 0)
CM == Tok(",", "", 0)
TS(x) == Tok("str", x, 0)
TN(x) == Tok("num", "", x)
TNull == Tok("null", "", 0)
TTrue == Tok("bool", "true", 0)
TFalse == Tok("bool", "false", 0)
TJunk(x) == Tok("junk", x, 0)

ParseOk(val, next) == [ok |-> TRUE, val |-> val, next |-> next, err |-> ""]
ParseFail(msg) == [ok |-> FALSE, val |-> Undefined, next |-> 0, err |-> msg]

\* obj[key] = val of JSON.parse: a repeated key keeps its first position
\* and takes the last value.
SetMember(members, key, val) ==
    IF \E i \in 1..Len(members) : members[i].k = key
    THEN [i \in 1..Len(members) |->
            IF members[i].k = key THEN Member(key, val) ELSE members[i]]
    ELSE Append(members, Member(key, val))

RECURSIVE ParseValue(_, _)
RECURSIVE ParseMembers(_, _, _, _)
RECURSIVE ParseElements(_, _, _, _)

\* toks from position i on, after "{": first is TRUE right after the brace.
ParseMembers(toks, i, acc, first) ==
    IF i > Len(toks) THEN ParseFail(EofMsg)
    ELSE IF first /\ toks[i].t = "}" THEN ParseOk(JObj(acc), i + 1)
    ELSE IF toks[i].t # "str" THEN ParseFail(TokenMsg)
    ELSE IF i + 1 > Len(toks) THEN ParseFail(EofMsg)
    ELSE IF toks[i + 1].t # ":" THEN ParseFail(TokenMsg)
    ELSE LET r == ParseValue(toks, i + 2) IN
         IF ~r.ok THEN r
         ELSE LET acc2 == SetMember(acc, toks[i].s, r.val)
                  j == r.next
              IN IF j > Len(toks) THEN ParseFail(EofMsg)
                 ELSE IF toks[j].t = "}" THEN ParseOk(JObj(acc2), j + 1)
                 ELSE IF toks[j].t = "," THEN ParseMembers(toks, j + 1, acc2, FALSE)
                 ELSE ParseFail(TokenMsg)

\* toks from position i on, after "[".
ParseElements(toks, i, acc, first) ==
    IF i > Len(toks) THEN ParseFail(EofMsg)
    ELSE IF first /\ toks[i].t = "]" THEN ParseOk(JArr(acc), i + 1)
    ELSE LET r == ParseValue(toks, i) IN
         IF ~r.ok THEN r
         ELSE LET acc2 == Append(acc, r.val)
                  j == r.next
              IN IF j > Len(toks) THEN ParseFail(EofMsg)
                 ELSE IF toks[j].t = "]" THEN ParseOk(JArr(acc2), j + 1)
                 ELSE IF toks[j].t = "," THEN ParseElements(toks, j + 1, acc2, FALSE)
                 ELSE ParseFail(TokenMsg)

ParseValue(toks, i) ==
    IF i > Len(toks) THEN ParseFail(EofMsg)
    ELSE LET tk == toks[i] IN
         CASE tk.t = "str" -> ParseOk(JStr(tk.s), i + 1)
           [] tk.t = "num" -> ParseOk(JNum(tk.n), i + 1)
           [] tk.t = "bool" -> ParseOk(JVal("bool", tk.s, 0, <<>>), i + 1)
           [] tk.t = "null" -> ParseOk(JNull, i + 1)
           [] tk.t = "{" -> ParseMembers(toks, i + 1, <<>>, TRUE)
           [] tk.t = "[" -> ParseElements(toks, i + 1, <<>>, TRUE)
           [] OTHER -> ParseFail(TokenMsg)

\* JSON.parse of the whole body: one value and nothing after it.
ParseJSON(toks) ==
    LET r == ParseValue(toks, 1) IN
    IF ~r.ok THEN r
    ELSE IF r.next <= Len(toks) THEN ParseFail(TrailingMsg)
    ELSE r

\* ---------------------------------------------------------- JSON.stringify
RECURSIVE Pad(_)
Pad(n) == IF n <= 0 THEN "" ELSE " " \o Pad(n - 1)

\* A string literal; the strings of this model hold no character that
\* JSON.stringify escapes.
Quote(s) == "\"" \o s \o "\""

RECURSIVE Stringify(_, _)
RECURSIVE StringifyItems(_, _, _, _)

\* Items i.. of an object (isObj) or array, each on its own line at indent ind.
StringifyItems(items, i, ind, isObj) ==
    LET one == Pad(ind)
               \o (IF isObj THEN Quote(items[i].k) \o ": " ELSE "")
               \o Stringify(items[i].v, ind)
    IN IF i = Len(items) THEN one
       ELSE one \o ",\n" \o StringifyItems(items, i + 1, ind, isObj)

\* JSON.stringify(v, null, 2) of a value nested at indent ind.
Stringify(v, ind) ==
    CASE v.t = "null" -> "null"
      [] v.t = "bool" -> v.s
      [] v.t = "num" -> ToString(v.n)
      [] v.t = "str" -> Quote(v.s)
      [] v.t = "obj" ->
            IF v.f = <<>> THEN "{}"
            ELSE "{\n" \o StringifyItems(v.f, 1, ind + 2, TRUE) \o "\n" \o Pad(ind) \o "}"
      [] v.t = "arr" ->
            IF v.f = <<>> THEN "[]"
            ELSE "[\n" \o StringifyItems(v.f, 1, ind + 2, FALSE) \o "\n" \o Pad(ind) \o "]"

\* --------------------------------------------------- JavaScript semantics
\* value[key] for the keys the handler reads ("status", "detail"): reading
\* a property of null or undefined throws, an object gives its member or
\* undefined, every other value gives undefined.
Throws(v) == v.t \in {"null", "undefined"}
Get(v, key) ==
    IF v.t = "obj" /\ \E i \in 1..Len(v.f) : v.f[i].k = key
    THEN v.f[CHOOSE i \in 1..Len(v.f) : v.f[i].k = key].v
    ELSE Undefined

\* ToBoolean, as `||` applies it.
Truthy(v) ==
    CASE v.t \in {"undefined", "null"} -> FALSE
      [] v.t = "bool" -> v.s = "true"
      [] v.t = "num" -> v.n # 0
      [] v.t = "str" -> v.s # ""
      [] OTHER -> TRUE

RECURSIVE ToJSString(_)
RECURSIVE JoinElements(_, _)

\* Array.prototype.join(","): null and undefined elements give "".
JoinElements(items, i) ==
    LET one == IF items[i].v.t \in {"null", "undefined"} THEN ""
               ELSE ToJSString(items[i].v)
    IN IF i = Len(items) THEN one ELSE one \o "," \o JoinElements(items, i + 1)

\* ToString, as `new Error(value)` applies it to make error.message.
ToJSString(v) ==
    CASE v.t = "str" -> v.s
      [] v.t = "num" -> ToString(v.n)
      [] v.t = "bool" -> v.s
      [] v.t = "null" -> "null"
      [] v.t = "undefined" -> "undefined"
      [] v.t = "obj" -> "[object Object]"
      [] v.t = "arr" -> IF v.f = <<>> THEN "" ELSE JoinElements(v.f, 1)

\* Response.ok: the status is in the range 200-299.
ResponseOk(status) == status >= 200 /\ status <= 299

\* ------------------------------------------------------------ environment
API_URL == "http://127.0.0.1:8000/check-kyc/"

Handlers == 1..MaxHandlers
Inputs == {"doc1", "doc2"}

\* The FileList values of a file input: up to MaxFiles files.
FileLists(input) ==
    {[i \in 1..n |-> [from |-> input, idx |-> i]] : n \in 0..MaxFiles}
NoFile == [from |-> "", idx |-> 0]
\* list[i] of a FileList, counted from 0: undefined past its end.
FileAt(list, i) == IF i + 1 <= Len(list) THEN list[i + 1] ELSE NoFile

\* The HTTP statuses the endpoint answers with.
StatusCodes == {200, 299, 404, 500}

\* The messages of the TypeError a rejected fetch carries, and of the one a
\* body stream that breaks off carries.
FetchFailures == {"Failed to fetch", "NetworkError when attempting to fetch resource."}
BodyFailures == {"network error"}

\* The bodies the endpoint sends.
WireBodies ==
    { <<LB, TS("status"), CL, TS("PASSED"), CM, TS("name_match_score"), CL, TN(92), RB>>,
      <<LB, TS("status"), CL, TS("FAILED"), CM, TS("name_match_score"), CL, TN(40), RB>>,
      <<LB, TS("status"), CL, TS("ERROR"), CM, TS("message"), CL, TS("no text found"), RB>>,
      <<LB, TS("status"), CL, TS("PENDING"), RB>>,
      <<LB, TS("status"), CL, TS("PASSED"), CM, TS("detail"), CL, TS("quota exceeded"), RB>>,
      <<LB, TS("status"), CL, TS("PASSED"), CM, TS("status"), CL, TS("FAILED"), RB>>,
      <<LB, TS("detail"), CL, TS("OCR failed"), RB>>,
      <<LB, TS("detail"), CL, TS(""), CM, TS("message"), CL, TS("bad upload"), RB>>,
      <<LB, TS("detail"), CL, LK, LB, TS("msg"), CL, TS("field required"), RB, RK, RB>>,
      <<LB, TS("message"), CL, TS("boom"), CM, TS("error"), CL, TS("E42"), RB>>,
      <<LB, RB>>,
      <<TNull>>,
      <<TN(42)>>,
      <<>>,
      <<TJunk("<html>")>>,
      <<LB, TS("status"), CL, TS("PASSED")>>,
      <<LB, TS("status"), CL, TS("PASSED"), RB, RB>> }

\* ------------------------------------------------------------------ state
VARIABLES
    files,      \* files[input]: the FileList of #doc1 and of #doc2
    dom,        \* #loader, #results-container, #submit-btn, #results-json
    alertMsg,   \* the text of the open alert() dialog, "" when none is open
    pc,         \* pc[h]: where handler invocation h is suspended
    req,        \* req[h]: the request invocation h issued
    resp,       \* resp[h]: the status of the response invocation h received
    nSubmits,   \* submit events so far
    nRequests,  \* fetch calls so far
    last        \* what the latest synchronous stretch of the handler did

vars == <<files, dom, alertMsg, pc, req, resp, nSubmits, nRequests, last>>

NoRequest == [url |-> "", method |-> "", body |-> <<>>]

\* The record of a stretch: step names it, path is the way a cycle ended,
\* status and data are the response's status and parsed body, thrown the
\* message of the error the catch clause caught, calls the number of
\* displayResults calls, rendered the argument of the latest such call.
Stretch(step, path, status, data, thrown, calls, rendered) ==
    [step |-> step, path |-> path, status |-> status, data |-> data,
     thrown |-> thrown, calls |-> calls, rendered |-> rendered]

\* ------------------------------------------------------- the submit handler
\* FilesMissing with && written for ||.
FilesMissingBoth(doc1Files, doc2Files) == Len(doc1Files) = 0 /\ Len(doc2Files) = 0

\* Line 18: the condition of the early return.
FilesMissing(doc1Files, doc2Files) == Len(doc1Files) = 0 \/ Len(doc2Files) = 0

ALERT_TEXT == "Please upload both documents."

\* ShowBusy without line 26: the button stays enabled.
ShowBusyNoDisable(d) ==
    [d EXCEPT !.loaderHidden = FALSE, !.resultsHidden = TRUE,
              !.submitText = "Checking..."]

\* ShowBusy without line 25: the earlier results stay visible.
ShowBusyKeepsResults(d) ==
    [d EXCEPT !.loaderHidden = FALSE, !.submitDisabled = TRUE,
              !.submitText = "Checking..."]

\* Lines 24-27: show the loader, hide the results, disable the button.
ShowBusy(d) ==
    [d EXCEPT !.loaderHidden = FALSE, !.resultsHidden = TRUE,
              !.submitDisabled = TRUE, !.submitText = "Checking..."]

\* Lines 30-32: the multipart payload.
BuildFormData(doc1Files, doc2Files) ==
    << [name |-> "doc1", file |-> FileAt(doc1Files, 0)],
       [name |-> "doc2", file |-> FileAt(doc2Files, 0)] >>

\* Lines 35-41: the request fetch sends.
FetchRequest(formData) == [url |-> API_URL, method |-> "POST", body |-> formData]

\* Line 48: the message of the error thrown for a non-2xx response.  Reading
\* data.detail throws a TypeError itself when data is null.
ApiErrorMessage(data) ==
    IF Throws(data) THEN NullPropMsg("detail")
    ELSE LET detail == Get(data, "detail") IN
         IF Truthy(detail) THEN ToJSString(detail) ELSE "An error occurred"

\* StatusColor comparing with "PASS" for "PASSED".
StatusColorPass(data) ==
    LET status == Get(data, "status")
        Is(x) == status.t = "str" /\ status.s = x
    IN IF Is("FAILED") \/ Is("ERROR") THEN "#d32f2f"
       ELSE IF Is("PASS") THEN "#388e3c"
       ELSE "#333"

\* Lines 74-80: the color for a document (=== compares without conversion).
StatusColor(data) ==
    LET status == Get(data, "status")
        Is(x) == status.t = "str" /\ status.s = x
    IN IF Is("FAILED") \/ Is("ERROR") THEN "#d32f2f"
       ELSE IF Is("PASSED") THEN "#388e3c"
       ELSE "#333"

\* DisplayResults without the else branch of lines 78-80: a document whose
\* status is none of the three keeps the color already set.
DisplayResultsKeepsColor(d, data) ==
    LET d1 == [d EXCEPT !.resultsText = Stringify(data, 0)] IN
    IF Throws(data)
    THEN [dom |-> d1, threw |-> TRUE, msg |-> NullPropMsg("status")]
    ELSE [dom |-> [d1 EXCEPT !.resultsColor =
                                 IF StatusColor(data) = "#333" THEN d.resultsColor
                                 ELSE StatusColor(data),
                             !.resultsHidden = FALSE],
          threw |-> FALSE, msg |-> ""]

\* Lines 68-83, displayResults(data) on DOM d.  Line 71 has run when line 74
\* throws for a data without properties.
DisplayResults(d, data) ==
    LET d1 == [d EXCEPT !.resultsText = Stringify(data, 0)] IN
    IF Throws(data)
    THEN [dom |-> d1, threw |-> TRUE, msg |-> NullPropMsg("status")]
    ELSE [dom |-> [d1 EXCEPT !.resultsColor = StatusColor(data),
                             !.resultsHidden = FALSE],
          threw |-> FALSE, msg |-> ""]

\* SynthError with `error: String(error)` for `error: error.message`.
SynthErrorToString(msg) ==
    JObj(<< Member("status", JStr("ERROR")),
            Member("message", JStr("Failed to connect to the API or an error occurred.")),
            Member("error", JStr("Error: " \o msg)) >>)

\* Lines 55-59: the document the catch clause renders.
SynthError(msg) ==
    JObj(<< Member("status", JStr("ERROR")),
            Member("message", JStr("Failed to connect to the API or an error occurred.")),
            Member("error", JStr(msg)) >>)

\* Finally without line 63: the button stays disabled.
FinallyKeepsDisabled(d) ==
    [d EXCEPT !.loaderHidden = TRUE, !.submitText = "Check Documents"]

\* Finally without line 64: the label stays "Checking...".
FinallyKeepsLabel(d) ==
    [d EXCEPT !.loaderHidden = TRUE, !.submitDisabled = FALSE]

\* Lines 62-64: the finally clause.
Finally(d) ==
    [d EXCEPT !.loaderHidden = TRUE, !.submitDisabled = FALSE,
              !.submitText = "Check Documents"]

\* TryBlock without the response.ok check of lines 46-49.
TryBlockIgnoresOk(d, status, json) ==
    IF ~json.ok
    THEN [dom |-> d, threw |-> TRUE, msg |-> json.err, path |-> "json",
          calls |-> 0, rendered |-> Undefined]
    ELSE LET r == DisplayResults(d, json.val) IN
         [dom |-> r.dom, threw |-> r.threw, msg |-> r.msg,
          path |-> IF r.threw THEN "render" ELSE "success",
          calls |-> 1, rendered |-> json.val]

\* TryBlock throwing for a body whose status is "FAILED" as for a non-2xx
\* response.
TryBlockThrowsOnFailed(d, status, json) ==
    IF ~json.ok
    THEN [dom |-> d, threw |-> TRUE, msg |-> json.err, path |-> "json",
          calls |-> 0, rendered |-> Undefined]
    ELSE IF ~ResponseOk(status) \/ Get(json.val, "status") = JStr("FAILED")
    THEN [dom |-> d, threw |-> TRUE, msg |-> ApiErrorMessage(json.val),
          path |-> "non2xx", calls |-> 0, rendered |-> Undefined]
    ELSE LET r == DisplayResults(d, json.val) IN
         [dom |-> r.dom, threw |-> r.threw, msg |-> r.msg,
          path |-> IF r.threw THEN "render" ELSE "success",
          calls |-> 1, rendered |-> json.val]

\* Lines 43-51, the try block from the settlement of response.json() on:
\* json is the outcome of response.json() (ok with val, or err thrown).
TryBlock(d, status, json) ==
    IF ~json.ok
    THEN [dom |-> d, threw |-> TRUE, msg |-> json.err, path |-> "json",
          calls |-> 0, rendered |-> Undefined]
    ELSE IF ~ResponseOk(status)
    THEN [dom |-> d, threw |-> TRUE, msg |-> ApiErrorMessage(json.val),
          path |-> "non2xx", calls |-> 0, rendered |-> Undefined]
    ELSE LET r == DisplayResults(d, json.val) IN
         [dom |-> r.dom, threw |-> r.threw, msg |-> r.msg,
          path |-> IF r.threw THEN "render" ELSE "success",
          calls |-> 1, rendered |-> json.val]

\* CatchBlock that logs the error and renders nothing.
CatchBlockSilent(t) == t

\* Lines 53-59: the catch clause, entered when the try block threw.
CatchBlock(t) ==
    IF t.threw
    THEN LET r == DisplayResults(t.dom, SynthError(t.msg)) IN
         [t EXCEPT !.dom = r.dom, !.calls = t.calls + 1,
                   !.rendered = SynthError(t.msg)]
    ELSE t

\* Complete with the cleanup at the end of the try block, not in a finally
\* clause: a cycle that threw skips it.
CompleteCleanupInTry(t) ==
    IF t.threw THEN CatchBlock(t) ELSE [t EXCEPT !.dom = Finally(t.dom)]

\* Lines 34-65 from a settlement on: try, catch, finally.
Complete(t) == LET c == CatchBlock(t) IN [c EXCEPT !.dom = Finally(c.dom)]

\* ---------------------------------------------------------------- actions
\* The page as index.html loads it (lines 2-6 look its elements up): loader
\* and results hidden, button enabled with its label, no file chosen.
Init ==
    /\ files = [input \in Inputs |-> <<>>]
    /\ dom = [loaderHidden |-> TRUE, resultsHidden |-> TRUE,
              submitDisabled |-> FALSE, submitText |-> "Check Documents",
              resultsText |-> "", resultsColor |-> ""]
    /\ alertMsg = ""
    /\ pc = [h \in Handlers |-> "idle"]
    /\ req = [h \in Handlers |-> NoRequest]
    /\ resp = [h \in Handlers |-> 0]
    /\ nSubmits = 0
    /\ nRequests = 0
    /\ last = Stretch("none", "", 0, Undefined, "", 0, Undefined)

\* The user picks the files of one input.
SelectFiles(input, list) ==
    /\ alertMsg = ""
    /\ files' = [files EXCEPT ![input] = list]
    /\ UNCHANGED <<dom, alertMsg, pc, req, resp, nSubmits, nRequests, last>>

\* The user closes the alert() dialog, which blocks the page while open.
DismissAlert ==
    /\ alertMsg # ""
    /\ alertMsg' = ""
    /\ UNCHANGED <<files, dom, pc, req, resp, nSubmits, nRequests, last>>

\* SubmitHandler with the UI update of lines 24-27 ahead of the validation
\* of lines 18-21.
SubmitHandlerBusyFirst(h) ==
    /\ nSubmits' = nSubmits + 1
    /\ dom' = ShowBusy(dom)
    /\ IF FilesMissing(files["doc1"], files["doc2"])
       THEN /\ alertMsg' = ALERT_TEXT
            /\ last' = Stretch("invalid", "", 0, Undefined, "", 0, Undefined)
            /\ UNCHANGED <<files, pc, req, resp, nRequests>>
       ELSE /\ req' = [req EXCEPT ![h] =
                          FetchRequest(BuildFormData(files["doc1"], files["doc2"]))]
            /\ pc' = [pc EXCEPT ![h] = "awaitFetch"]
            /\ nRequests' = nRequests + 1
            /\ last' = Stretch("issued", "", 0, Undefined, "", 0, Undefined)
            /\ UNCHANGED <<files, alertMsg, resp>>

\* Lines 11-41: a submit event runs the handler, as invocation h, up to
\* `await fetch`.
SubmitHandler(h) ==
    /\ nSubmits' = nSubmits + 1
    /\ IF FilesMissing(files["doc1"], files["doc2"])
       THEN /\ alertMsg' = ALERT_TEXT
            /\ last' = Stretch("invalid", "", 0, Undefined, "", 0, Undefined)
            /\ UNCHANGED <<files, dom, pc, req, resp, nRequests>>
       ELSE /\ dom' = ShowBusy(dom)
            /\ req' = [req EXCEPT ![h] =
                          FetchRequest(BuildFormData(files["doc1"], files["doc2"]))]
            /\ pc' = [pc EXCEPT ![h] = "awaitFetch"]
            /\ nRequests' = nRequests + 1
            /\ last' = Stretch("issued", "", 0, Undefined, "", 0, Undefined)
            /\ UNCHANGED <<files, alertMsg, resp>>

\* A disabled submit button submits no form: the form of index.html is
\* submitted through #submit-btn.
SubmitEnabled == ~dom.submitDisabled

\* The invocation a new submit event starts: the first one not suspended.
FreeHandler(h) == pc[h] = "idle" /\ \A g \in Handlers : g < h => pc[g] # "idle"

\* The user submits the form.
UserSubmit ==
    /\ alertMsg = ""
    /\ SubmitEnabled
    /\ nSubmits < MaxSubmits
    /\ \E h \in Handlers : FreeHandler(h) /\ SubmitHandler(h)

\* Lines 35-43: the fetch promise of invocation h resolves with a response
\* of the given status, and the handler calls response.json() to read its
\* body.
FetchResolve(h, status) ==
    /\ alertMsg = ""
    /\ pc[h] = "awaitFetch"
    /\ pc' = [pc EXCEPT ![h] = "awaitJson"]
    /\ resp' = [resp EXCEPT ![h] = status]
    /\ last' = Stretch("headers", "", status, Undefined, "", 0, Undefined)
    /\ UNCHANGED <<files, dom, alertMsg, req, nSubmits, nRequests>>

\* EndCycle calling fetch again after a cycle that failed.
EndCycleRetries(h, c, status, data, thrown) ==
    /\ pc' = [pc EXCEPT ![h] = IF c.path = "success" THEN "idle" ELSE "awaitFetch"]
    /\ req' = [req EXCEPT ![h] = IF c.path = "success" THEN NoRequest ELSE req[h]]
    /\ resp' = [resp EXCEPT ![h] = 0]
    /\ nRequests' = IF c.path = "success" THEN nRequests ELSE nRequests + 1
    /\ UNCHANGED <<files, alertMsg, nSubmits>>
    /\ dom' = c.dom
    /\ last' = Stretch("settled", c.path, status, data, thrown, c.calls, c.rendered)

\* The end of a cycle of invocation h: c is the handler's state after
\* try, catch and finally.
EndCycle(h, c, status, data, thrown) ==
    /\ pc' = [pc EXCEPT ![h] = "idle"]
    /\ req' = [req EXCEPT ![h] = NoRequest]
    /\ resp' = [resp EXCEPT ![h] = 0]
    /\ UNCHANGED <<files, alertMsg, nSubmits, nRequests>>
    /\ dom' = c.dom
    /\ last' = Stretch("settled", c.path, status, data, thrown, c.calls, c.rendered)

\* Lines 35, 53-65: the fetch promise of invocation h rejects.
FetchReject(h, msg) ==
    /\ alertMsg = ""
    /\ pc[h] = "awaitFetch"
    /\ EndCycle(h,
                Complete([dom |-> dom, threw |-> TRUE, msg |-> msg, path |-> "reject",
                          calls |-> 0, rendered |-> Undefined]),
                0, Undefined, msg)

\* Line 43: what response.json() settles with, for each body.
ParseTable == [body \in WireBodies |-> ParseJSON(body)]

\* Lines 43-65: the body of invocation h's response has arrived and
\* response.json() settles with its parse.
JsonSettle(h, body) ==
    /\ alertMsg = ""
    /\ pc[h] = "awaitJson"
    /\ LET json == ParseTable[body]
           t == TryBlock(dom, resp[h], json)
       IN EndCycle(h, Complete(t), resp[h], json.val,
                   IF json.ok THEN t.msg ELSE json.err)

\* Lines 43, 53-65: the body stream of invocation h's response breaks off
\* and response.json() rejects.
JsonReject(h, msg) ==
    /\ alertMsg = ""
    /\ pc[h] = "awaitJson"
    /\ EndCycle(h, Complete(TryBlock(dom, resp[h], ParseFail(msg))),
                resp[h], Undefined, msg)

Next ==
    \/ \E input \in Inputs : \E list \in FileLists(input) : SelectFiles(input, list)
    \/ DismissAlert
    \/ UserSubmit
    \/ \E h \in Handlers : \E status \in StatusCodes : FetchResolve(h, status)
    \/ \E h \in Handlers : \E msg \in FetchFailures : FetchReject(h, msg)
    \/ \E h \in Handlers : \E body \in WireBodies : JsonSettle(h, body)
    \/ \E h \in Handlers : \E msg \in BodyFailures : JsonReject(h, msg)

Spec == Init /\ [][Next]_vars

\* Line 11: the listener runs for every submit event of #kyc-form, whoever
\* dispatches it and whatever the state of the button: a new invocation
\* starts while earlier ones are suspended at their awaits.  A run has as
\* many submit events as there are invocations, so that all can overlap.
SubmitEvent ==
    /\ alertMsg = ""
    /\ nSubmits < MaxHandlers
    /\ \E h \in Handlers : FreeHandler(h) /\ SubmitHandler(h)

NextInterleaved ==
    \/ \E input \in Inputs : \E list \in FileLists(input) : SelectFiles(input, list)
    \/ DismissAlert
    \/ SubmitEvent
    \/ \E h \in Handlers : \E status \in StatusCodes : FetchResolve(h, status)
    \/ \E h \in Handlers : \E msg \in FetchFailures : FetchReject(h, msg)
    \/ \E h \in Handlers : \E body \in WireBodies : JsonSettle(h, body)
    \/ \E h \in Handlers : \E msg \in BodyFailures : JsonReject(h, msg)

\* The handler under submit events that the button does not gate.
SpecInterleaved == Init /\ [][NextInterleaved]_vars

\* The promise invocation h awaits settles and the handler resumes.  The
\* steps of Next that change pc (and then pc[h] alone, to the next await or
\* to idle) from a state where h is suspended are FetchResolve, FetchReject,
\* JsonSettle and JsonReject of h, and one of them is enabled exactly when h
\* is suspended and no alert() blocks the page; so Resumes(h) is the effect
\* on pc, and has the enabling condition, of their disjunction.
Resumes(h) ==
    /\ pc[h] # "idle"
    /\ alertMsg = ""
    /\ \E p \in {"awaitJson", "idle"} : p # pc[h] /\ pc' = [pc EXCEPT ![h] = p]

\* Every issued request eventually resolves or rejects: the awaited promise
\* of a suspended invocation is eventually settled.
FairSpec == Spec /\ \A h \in Handlers : WF_pc(Resumes(h))

\* ----------------------------------------------------------------- claims
Settled == last.step = "settled"
Outstanding(h) == pc[h] # "idle"
Non2xx(status) == status < 200 \/ status > 299
ErrorDocument(msg) ==
    JObj(<< Member("status", JStr("ERROR")),
            Member("message", JStr("Failed to connect to the API or an error occurred.")),
            Member("error", JStr(msg)) >>)
ErrorText(msg) ==
    "{\n  \"status\": \"ERROR\",\n  \"message\": \"Failed to connect to the API or an error occurred.\",\n  \"error\": \""
    \o msg \o "\"\n}"
InvalidSubmit ==
    /\ nSubmits' = nSubmits + 1
    /\ (Len(files["doc1"]) = 0 \/ Len(files["doc2"]) = 0)

\* C1: a submit event with doc1 or doc2 (or both) empty shows the alert and
\* issues no request: no fetch is counted and no invocation is suspended.
C1_NoRequestWithoutFiles ==
    [][InvalidSubmit =>
         /\ alertMsg = "" /\ alertMsg' = "Please upload both documents."
         /\ nRequests' = nRequests /\ req' = req /\ pc' = pc]_vars

\* A submit with doc1 chosen and doc2 empty has raised the alert.
C1_Witness ==
    /\ alertMsg # "" /\ last.step = "invalid"
    /\ Len(files["doc1"]) > 0 /\ Len(files["doc2"]) = 0

\* C2: at the end of every cycle, whatever the exit path, the button is
\* enabled, its label is "Check Documents" and the loader is hidden.
C2_CleanupOnEveryExit ==
    Settled =>
        /\ ~dom.submitDisabled
        /\ dom.submitText = "Check Documents"
        /\ dom.loaderHidden

\* A cycle has ended through an exception inside displayResults.
C2_Witness == Settled /\ last.path = "render" /\ ~dom.submitDisabled

\* C3: a cycle whose response was non-2xx has rendered the synthesized
\* ERROR document, once, whatever status the body carries.
C3_Non2xxRendersError ==
    Settled /\ last.status # 0 /\ Non2xx(last.status) =>
        /\ last.calls = 1
        /\ last.rendered = ErrorDocument(last.thrown)
        /\ dom.resultsText = ErrorText(last.thrown)

\* A 500 response whose body says PASSED has ended its cycle.
C3_Witness ==
    /\ Settled /\ last.status = 500
    /\ Get(last.data, "status") = JStr("PASSED")

\* C4: when fetch rejected or response.json() threw, the rendered document
\* is {status: "ERROR", message: <generic>, error: <the thrown message>}.
C4_FailureRendersItsMessage ==
    Settled /\ last.path \in {"reject", "json"} =>
        /\ last.rendered = ErrorDocument(last.thrown)
        /\ dom.resultsText = ErrorText(last.thrown)
        /\ ~dom.resultsHidden

\* response.json() threw on a truncated body of a 200 response.
C4_Witness ==
    /\ Settled /\ last.path = "json" /\ last.status = 200
    /\ last.thrown = "Unexpected end of JSON input"
    /\ dom.resultsText = ErrorText("Unexpected end of JSON input")

\* C5: a 2xx response whose parsed body has status "PASSED" ends with the
\* pretty-printed body as the text, in the success color.
C5_PassedRendersBody ==
    Settled /\ last.status # 0 /\ ~Non2xx(last.status)
            /\ Get(last.data, "status") = JStr("PASSED") =>
        /\ last.rendered = last.data
        /\ dom.resultsText = Stringify(last.data, 0)
        /\ dom.resultsColor = "#388e3c"

\* The spec's example: {"status":"PASSED","name_match_score":92}.
C5_Witness ==
    /\ Settled /\ last.status = 200
    /\ dom.resultsText = "{\n  \"status\": \"PASSED\",\n  \"name_match_score\": 92\n}"
    /\ dom.resultsColor = "#388e3c"

\* C6: a 2xx response whose parsed body has status "FAILED" ends with the
\* pretty-printed body as the text (no synthesized document), in the
\* warning color.
C6_FailedPassedThrough ==
    Settled /\ last.status # 0 /\ ~Non2xx(last.status)
            /\ Get(last.data, "status") = JStr("FAILED") =>
        /\ last.calls = 1
        /\ last.rendered = last.data
        /\ dom.resultsText = Stringify(last.data, 0)
        /\ dom.resultsColor = "#d32f2f"

\* A 200 response with a FAILED verdict has been rendered.
C6_Witness ==
    /\ Settled /\ last.status = 200
    /\ dom.resultsText = "{\n  \"status\": \"FAILED\",\n  \"name_match_score\": 40\n}"
    /\ dom.resultsColor = "#d32f2f"

\* C7: at most one request is outstanding at any time.  The handler checks
\* for no request in flight; the disabled button keeps submit events away.
C7_OneRequestAtATime ==
    /\ Cardinality({h \in Handlers : Outstanding(h)}) <= 1
    /\ Cardinality({h \in Handlers : req[h] # NoRequest}) <= 1

\* The second request of a run is outstanding while both inputs hold a file
\* and the run has a submit event left.
C7_Witness ==
    /\ nRequests = 2 /\ nSubmits < MaxSubmits
    /\ \E h \in Handlers : Outstanding(h) /\ req[h] # NoRequest
    /\ Len(files["doc1"]) > 0 /\ Len(files["doc2"]) > 0

BusyUI == dom.submitDisabled \/ ~dom.loaderHidden \/ \E h \in Handlers : Outstanding(h)
IdleUI == ~dom.submitDisabled /\ dom.loaderHidden /\ \A h \in Handlers : ~Outstanding(h)

\* C8: when every issued request eventually resolves or rejects, every
\* submitting state is followed by the idle state (button enabled, loader
\* hidden, no request outstanding).
C8_ReturnsToIdle == BusyUI ~> IdleUI

\* A submission is waiting for its response's body.
C8_Witness ==
    /\ dom.submitDisabled /\ ~dom.loaderHidden
    /\ \E h \in Handlers : pc[h] = "awaitJson"

FailedCycle == Settled /\ last.path \in {"reject", "json", "non2xx", "render"}

\* C9 as stated: every failure of a submission, the validation failure
\* included, ends with a document rendered by displayResults and the
\* results container visible.
C9_AllFailuresRendered ==
    last.step = "invalid" \/ FailedCycle =>
        last.calls >= 1 /\ ~dom.resultsHidden

\* C9 amended: a failure of an issued request (fetch rejection, a body that
\* fails to arrive or parse, a non-2xx status, an exception while rendering)
\* ends with the synthesized ERROR document rendered by displayResults and
\* the results container visible; a validation failure raises the alert and
\* leaves the results area as it was.
C9_RequestFailuresRendered ==
    /\ [](FailedCycle =>
            /\ last.calls >= 1
            /\ last.rendered = ErrorDocument(last.thrown)
            /\ dom.resultsText = ErrorText(last.thrown)
            /\ dom.resultsColor = "#d32f2f"
            /\ ~dom.resultsHidden)
    /\ [][InvalidSubmit =>
            /\ alertMsg' = "Please upload both documents."
            /\ dom' = dom]_vars

\* A rejected fetch has been rendered, and then a submit without files has
\* raised the alert.
C9_Witness ==
    /\ last.step = "invalid" /\ alertMsg # ""
    /\ dom.resultsText = ErrorText("Failed to fetch")
    /\ ~dom.resultsHidden

\* C10: while a request is outstanding the button is disabled, the loader
\* visible and the results hidden; the step that issues a request leaves
\* the button disabled; only the settlement of an outstanding request
\* enables the button again.
C10_BusyWhileOutstanding ==
    /\ [](\A h \in Handlers : Outstanding(h) =>
            dom.submitDisabled /\ ~dom.loaderHidden /\ dom.resultsHidden)
    /\ [][nRequests' # nRequests => dom'.submitDisabled]_vars
    /\ [][dom.submitDisabled /\ ~dom'.submitDisabled =>
            \E h \in Handlers : Outstanding(h) /\ pc'[h] = "idle"]_vars

\* A request is outstanding after an earlier cycle has shown its result.
C10_Witness ==
    /\ \E h \in Handlers : Outstanding(h)
    /\ nRequests >= 2 /\ dom.resultsText # ""
    /\ dom.submitDisabled /\ dom.resultsHidden

\* The body of the latest cycle's response parsed as JSON.
BodyParsed == Settled /\ last.status # 0 /\ last.data # Undefined

\* C11 as stated: after a non-2xx response whose body parsed, the error
\* member of the rendered ERROR document is the body's detail member when
\* that is present and non-empty, and "An error occurred" otherwise.
C11_ErrorIsDetailOrDefault ==
    BodyParsed /\ Non2xx(last.status) =>
        LET detail == Get(last.data, "detail") IN
        Get(last.rendered, "error") =
            IF detail # Undefined /\ detail # JStr("") THEN detail
            ELSE JStr("An error occurred")

\* A step that is a submit event with a file in both inputs.
ValidSubmit ==
    /\ nSubmits' = nSubmits + 1
    /\ Len(files["doc1"]) > 0 /\ Len(files["doc2"]) > 0

\* C12: a submit event that passes validation issues exactly one request, a
\* POST to API_URL, and no other step issues one (no settlement of a
\* request, failed or not, fetches again); so, both counts starting at 0,
\* the requests issued are as many as the submit events that passed
\* validation, and never more than the submit events.
C12_OneRequestPerValidSubmit ==
    /\ [][nRequests' = nRequests + (IF ValidSubmit THEN 1 ELSE 0)]_vars
    /\ [][ValidSubmit =>
            \E h \in Handlers :
                /\ req[h] = NoRequest
                /\ req'[h].method = "POST" /\ req'[h].url = API_URL
                /\ \A g \in Handlers \ {h} : req'[g] = req[g]]_vars
    /\ [][\A h \in Handlers : Outstanding(h) /\ pc'[h] # pc[h] =>
            nRequests' = nRequests /\ req'[h] \in {req[h], NoRequest}]_vars
    /\ [](nRequests <= nSubmits)

\* Of three submit events one failed validation and two issued a request;
\* the second request has ended in a failure.
C12_Witness == FailedCycle /\ nSubmits = 3 /\ nRequests = 2

\* The color the claim gives a document, by its status member.
ColorByStatus(doc) ==
    LET status == Get(doc, "status") IN
    IF status \in {JStr("FAILED"), JStr("ERROR")} THEN "#d32f2f"
    ELSE IF status = JStr("PASSED") THEN "#388e3c"
    ELSE "#333"

\* C13: at the end of every cycle the text color is the one the status of
\* the document rendered last gives (warning for FAILED and ERROR, success
\* for PASSED, #333 for any other or no status), whatever color the cycle
\* before left; and the color changes at the end of a cycle only.
C13_ColorFollowsStatus ==
    /\ [](Settled => dom.resultsColor = ColorByStatus(last.rendered))
    /\ [][dom'.resultsColor # dom.resultsColor => last'.step = "settled"]_vars

\* The second cycle of a run has rendered the body 42, a document without a
\* status, in the neutral color.
C13_Witness ==
    /\ Settled /\ nRequests = 2 /\ last.path = "success"
    /\ last.rendered = JNum(42) /\ dom.resultsText = "42"
    /\ dom.resultsColor = "#333"

\* C14 as stated: after a 2xx response whose body parsed as JSON, an object
\* or not, displayResults has been called exactly once, with the parsed
\* body, and the text shown is the pretty-printed body (no synthesized ERROR
\* document).
C14_ParsedBodyRenderedOnce ==
    BodyParsed /\ ~Non2xx(last.status) =>
        /\ last.calls = 1
        /\ last.rendered = last.data
        /\ dom.resultsText = Stringify(last.data, 0)

\* C15: a submit event that fails validation changes nothing of the UI: the
\* button's disabled flag and label, the loader's and the results
\* container's visibility, the result text and its color are after the
\* handler's return what they were before.
C15_InvalidSubmitKeepsUI ==
    [][InvalidSubmit =>
         /\ dom'.submitDisabled = dom.submitDisabled
         /\ dom'.submitText = dom.submitText
         /\ dom'.loaderHidden = dom.loaderHidden
         /\ dom'.resultsHidden = dom.resultsHidden
         /\ dom'.resultsText = dom.resultsText
         /\ dom'.resultsColor = dom.resultsColor]_vars

\* A PASSED result is on display, and a submit with an input emptied since
\* has raised the alert over it.
C15_Witness ==
    /\ last.step = "invalid" /\ alertMsg = "Please upload both documents."
    /\ ~dom.resultsHidden /\ dom.resultsColor = "#388e3c"
    /\ ~dom.submitDisabled /\ dom.submitText = "Check Documents"

\* C16: in every state, with invocations of the handler interleaved at
\* their awaits too, the loader is visible exactly when the button is
\* disabled and exactly when its label is "Checking..." (it is "Check
\* Documents" otherwise); and a step changes the three together or none.
C16_BusyIndicatorsAgree ==
    /\ []((~dom.loaderHidden) = dom.submitDisabled)
    /\ [](dom.submitDisabled = (dom.submitText = "Checking..."))
    /\ [](dom.submitText \in {"Checking...", "Check Documents"})
    /\ [][/\ (dom'.loaderHidden # dom.loaderHidden)
               = (dom'.submitDisabled # dom.submitDisabled)
          /\ (dom'.submitDisabled # dom.submitDisabled)
               = (dom'.submitText # dom.submitText)]_vars

\* Two invocations were suspended together; one has ended its cycle and put
\* the button back while the other still awaits its response.
C16_Witness ==
    /\ Settled /\ \E h \in Handlers : Outstanding(h)
    /\ dom.loaderHidden /\ ~dom.submitDisabled
    /\ dom.submitText = "Check Documents"

====
